---- MODULE Spec2Model ----
(***************************************************************************)
(* ThreatForest: the resumable workflow state machine.                     *)
(*   - ThreatForestState  (modules/core/state.py)                          *)
(*   - StateManager       (modules/core/state_manager.py)                  *)
(*   - ThreatForestOrchestrator.execute_workflow (orchestrator.py)         *)
(*   - GraphStore, GraphBuilder, EmbeddingService (modules/graph)          *)
(*   - VectorSearch (modules/graph), TTCMatcher (workflow/ttc_mappings)    *)
(* The specifications share the definitions below:                         *)
(*   SpecState  exercises the methods of one ThreatForestState object,     *)
(*   SpecSM     exercises a StateManager over one state directory,         *)
(*   Spec       runs execute_workflow as a sequence of processes that may  *)
(*              fail, be killed and be restarted over the same directory,  *)
(*   SpecGraph  exercises GraphStore.is_stale and GraphBuilder over one    *)
(*              graph file and one STIX bundle,                            *)
(*   SpecMatch  applies VectorSearch.search and TTCMatcher.match_steps to  *)
(*              small graphs and step lists.                               *)
(***************************************************************************)
EXTENDS Integers, Sequences, FiniteSets, TLC

VARIABLES
    clock,              \* datetime.now(), in whole ticks
    ws,                 \* SpecState: the ThreatForestState object under test
    call,               \* SpecState: the last method call and what it returned
    files,              \* state_dir/<name>.json : checkpoint name -> file content
    archive,            \* state_dir/archive/<name>_<timestamp>.json
    smLoaded,           \* SpecSM: what the last load_checkpoint returned
    smSaved,            \* SpecSM: per name, the state of the last completed save
    smSaves,            \* SpecSM: number of save_checkpoint calls so far
    pc,                 \* Spec: position of the running process in execute_workflow
    state,              \* Spec: self.state of the running orchestrator
    config,             \* Spec: the ThreatForestConfig of the running orchestrator
    context,            \* Spec: the Context object of the running call
    attack_trees,       \* Spec: local variable attack_trees of execute_workflow
    extraction_result,  \* Spec: local variable extraction_result
    invoked,            \* Spec: collaborators invoked by the running call, in order
    failed,             \* Spec: stages whose collaborator failed in the running call
    resumedFrom,        \* Spec: what _initialize_state found in latest.json
    result,             \* Spec: what the last execute_workflow call returned
    run,                \* Spec: number of execute_workflow calls started so far
    hist,               \* Spec: checkpoint writes and archive calls of the running call
    archive_file,       \* Spec: local variable archive_file of archive_checkpoint
    gfile,              \* SpecGraph: the graph JSON file at graph_path
    bundle,             \* SpecGraph: the STIX bundle file
    gcall,              \* SpecGraph: the last GraphStore/GraphBuilder call
    minput,             \* SpecMatch: the graph, the steps, top_k and min_similarity
    mcall,              \* SpecMatch: the last search or match_steps call
    embed,              \* SpecEmbed: one EmbeddingService and the calls made on it
    matcher,            \* SpecMatcher: one TTCMatcher and the match_steps calls on it
    treegen             \* SpecTrees: the tracking file and the tree generation stage

vars == <<clock, ws, call, files, archive, smLoaded, smSaved, smSaves, pc, state, config,
          context, attack_trees, extraction_result, invoked, failed, resumedFrom,
          result, run, hist, archive_file, gfile, bundle, gcall,
          minput, mcall, embed, matcher, treegen>>

----------------------------------------------------------------------------
(* Bounds *)

MaxClock == 1       \* the clock stops ticking here
MaxRuns  == 2       \* execute_workflow calls per behaviour
MaxSaves == 2       \* SpecSM: save_checkpoint calls per behaviour
MaxTechniques == 2  \* attack patterns in a STIX bundle, techniques in a graph
MaxTerms == 6       \* SpecMatch: how many of the AWS_TERMS are told apart
MaxSteps == 2       \* SpecMatch: attack steps in one match_steps call
MaxTopK  == 2       \* SpecMatch: largest top_k

----------------------------------------------------------------------------
(* class WorkflowStage(str, Enum) *)

WorkflowStage ==
    {"setup", "context_analysis", "extraction", "tree_generation",
     "mapping", "summary", "complete"}

(* A value held in current_stage is either the enum member (the field        *)
(* default, or what advance_to stored) or the plain string that pydantic      *)
(* produces on load under use_enum_values. Both compare and hash by the       *)
(* string value, since the enum mixes in str.                                 *)
Member(v) == [v |-> v, enum |-> TRUE]
Plain(v)  == [v |-> v, enum |-> FALSE]
StageEq(a, b) == a.v = b.v

FlagNames ==
    {"setup_complete", "context_complete", "extraction_complete",
     "tree_generation_complete", "mapping_complete", "summary_complete"}

(* Stage result payloads are opaque: None (or the empty list) or the value   *)
(* returned by a collaborator in a given execute_workflow call.               *)
None == [by |-> "none", run |-> 0]
Payload(by, r) == [by |-> by, run |-> r]

(* ThreatForestState(project_path=..., bedrock_model=...) with field defaults *)
NewState(now, project, model) ==
    [ current_stage |-> Member("setup"),
      started_at |-> now,
      last_updated |-> now,
      project_path |-> project,
      bedrock_model |-> model,
      setup_complete |-> FALSE,
      context_complete |-> FALSE,
      extraction_complete |-> FALSE,
      tree_generation_complete |-> FALSE,
      mapping_complete |-> FALSE,
      summary_complete |-> FALSE,
      setup_result |-> None,
      context_files |-> None,
      extracted_info |-> None,
      attack_trees |-> None,
      mapped_trees |-> None,
      output_files |-> None,
      errors |-> <<>> ]

----------------------------------------------------------------------------
(* ThreatForestState.can_transition_to *)

transitions_bad(stage) ==
    CASE stage = "setup"            -> {}
      [] stage = "context_analysis" -> {"setup"}
      [] stage = "extraction"       -> {"context_analysis"}
      [] stage = "tree_generation"  -> {"extraction"}
      [] stage = "mapping"          -> {"tree_generation", "extraction"}
      [] stage = "summary"          -> {"mapping", "tree_generation"}
      [] stage = "complete"         -> {"summary"}
      [] OTHER                      -> {}

transitions(stage) ==
    CASE stage = "setup"            -> {}
      [] stage = "context_analysis" -> {"setup"}
      [] stage = "extraction"       -> {"context_analysis"}
      [] stage = "tree_generation"  -> {"extraction"}
      [] stage = "mapping"          -> {"tree_generation"}
      [] stage = "summary"          -> {"mapping", "tree_generation"}
      [] stage = "complete"         -> {"summary"}
      [] OTHER                      -> {}

can_transition_to_bad(self, stage) ==
    LET required_stages == transitions(self.current_stage.v)
    IN  stage \in required_stages \/ self.current_stage.v = stage

can_transition_to(self, stage) ==
    LET required_stages == transitions(stage)
    IN  self.current_stage.v \in required_stages \/ self.current_stage.v = stage

(* ThreatForestState.advance_to: the state afterwards and whether it raised *)
advance_to_bad(self, stage, now) ==
    IF ~can_transition_to(self, stage)
    THEN [raised |-> TRUE,
          self |-> [self EXCEPT !.last_updated = now]]
    ELSE [raised |-> FALSE,
          self |-> [self EXCEPT !.current_stage = Member(stage),
                                !.last_updated = now]]

advance_to(self, stage, now) ==
    IF ~can_transition_to(self, stage)
    THEN [raised |-> TRUE, self |-> self]
    ELSE [raised |-> FALSE,
          self |-> [self EXCEPT !.current_stage = Member(stage),
                                !.last_updated = now]]

----------------------------------------------------------------------------
(* ThreatForestState.is_valid_for_resume *)

stage_order(stage) ==
    CASE stage = "setup"            -> 0
      [] stage = "context_analysis" -> 1
      [] stage = "extraction"       -> 2
      [] stage = "tree_generation"  -> 3
      [] stage = "mapping"          -> 4
      [] stage = "summary"          -> 5
      [] stage = "complete"         -> 6
      [] OTHER                      -> 0

stage_checks(self) ==
    << <<"context_analysis", self.setup_complete, "Setup incomplete">>,
       <<"extraction", self.context_complete, "Context analysis incomplete">>,
       <<"tree_generation", self.extraction_complete, "Extraction incomplete">>,
       <<"mapping", self.tree_generation_complete, "Tree generation incomplete">>,
       <<"summary", self.tree_generation_complete, "Tree generation incomplete">> >>

RECURSIVE resume_checks_from_bad(_, _, _)
resume_checks_from_bad(checks, current_order, i) ==
    IF i > Len(checks)
    THEN [ok |-> TRUE, msg |-> "State valid for resume"]
    ELSE LET stage_order_val == stage_order(checks[i][1])
             required_flag == checks[i][2]
         IN  IF current_order > stage_order_val /\ ~required_flag
             THEN [ok |-> FALSE, msg |-> checks[i][3]]
             ELSE resume_checks_from_bad(checks, current_order, i + 1)

(* the for loop over stage_checks, from entry i on *)
RECURSIVE resume_checks_from(_, _, _)
resume_checks_from(checks, current_order, i) ==
    IF i > Len(checks)
    THEN [ok |-> TRUE, msg |-> "State valid for resume"]
    ELSE LET stage_order_val == stage_order(checks[i][1])
             required_flag == checks[i][2]
         IN  IF current_order >= stage_order_val /\ ~required_flag
             THEN [ok |-> FALSE, msg |-> checks[i][3]]
             ELSE resume_checks_from(checks, current_order, i + 1)

is_valid_for_resume(self) ==
    IF self.current_stage.v = "complete"
    THEN [ok |-> FALSE, msg |-> "Workflow already complete"]
    ELSE resume_checks_from(stage_checks(self), stage_order(self.current_stage.v), 1)

----------------------------------------------------------------------------
(* Checkpoint files.  A file is absent, holds the JSON text of a state, or  *)
(* holds the empty or partial text that open(file, 'w') leaves behind until *)
(* the buffered write has reached the disk.                                  *)

CheckpointNames == {"latest", "manual"}

Absent    == [kind |-> "absent"]
Truncated == [kind |-> "truncated"]
Text(json) == [kind |-> "json", data |-> json]

(* state.model_dump_json(): the enum-valued field is dumped as its value *)
model_dump_json_bad(self) ==
    [self EXCEPT !.current_stage =
        IF self.current_stage.enum THEN "WorkflowStage" ELSE self.current_stage.v]

model_dump_json(self) ==
    [self EXCEPT !.current_stage = self.current_stage.v]

(* ThreatForestState built from the parsed data: validation of the enum field, then            *)
(* use_enum_values stores the plain value                                    *)
validates(data) == data.current_stage \in WorkflowStage
from_json(data) == [data EXCEPT !.current_stage = Plain(data.current_stage)]

(* pydantic's __eq__: field by field, the str enum comparing by value *)
StructEq(a, b) ==
    /\ StageEq(a.current_stage, b.current_stage)
    /\ [a EXCEPT !.current_stage = 0] = [b EXCEPT !.current_stage = 0]

----------------------------------------------------------------------------
(* StateManager *)

(* save_checkpoint, line 20: open(checkpoint_file, 'w') truncates the file *)
save_open(fs, checkpoint_name) ==
    [fs EXCEPT ![checkpoint_name] = Truncated]

(* save_checkpoint, line 21 and the close of the with block *)
save_write(fs, checkpoint_name, self) ==
    [fs EXCEPT ![checkpoint_name] = Text(model_dump_json(self))]

save_checkpoint(fs, self, checkpoint_name) ==
    save_write(save_open(fs, checkpoint_name), checkpoint_name, self)

(* load_checkpoint: None, a state, or the exception of json.load or of the  *)
(* model validation                                                          *)
load_checkpoint(fs, checkpoint_name) ==
    LET f == fs[checkpoint_name]
    IN  IF f.kind = "absent" THEN [kind |-> "none"]
        ELSE IF f.kind = "truncated" THEN [kind |-> "raise"]
        ELSE IF ~validates(f.data) THEN [kind |-> "raise"]
        ELSE [kind |-> "state", state |-> from_json(f.data)]

delete_checkpoint(fs, checkpoint_name) ==
    [fs EXCEPT ![checkpoint_name] = Absent]

(* archive_checkpoint: the archive file is named by the checkpoint name and *)
(* the time of the call; write_text opens (truncates) and then writes        *)
ArchiveKeys == CheckpointNames \X (0..MaxClock)

archive_open(fs, ar, checkpoint_name, now) ==
    IF fs[checkpoint_name].kind = "absent" THEN ar
    ELSE [ar EXCEPT ![<<checkpoint_name, now>>] = Truncated]

archive_write(fs, ar, checkpoint_name, now) ==
    IF fs[checkpoint_name].kind = "absent" THEN ar
    ELSE [ar EXCEPT ![<<checkpoint_name, now>>] = fs[checkpoint_name]]

archive_checkpoint(fs, ar, checkpoint_name, now) ==
    archive_write(fs, archive_open(fs, ar, checkpoint_name, now), checkpoint_name, now)

cleanup_completed_states_bad(fs) ==
    [n \in CheckpointNames |->
        IF fs[n].kind = "json" /\ fs[n].data.current_stage = "summary"
        THEN Absent ELSE fs[n]]

(* cleanup_completed_states: unlink every checkpoint whose current_stage is *)
(* complete; a file that does not parse is left alone.  The glob is over    *)
(* state_dir/*.json alone, so the archive directory is not visited          *)
cleanup_completed_states(fs) ==
    [n \in CheckpointNames |->
        IF fs[n].kind = "json" /\ fs[n].data.current_stage = "complete"
        THEN Absent ELSE fs[n]]

----------------------------------------------------------------------------
(* modules/graph: MitreAttackGraph, GraphStore, EmbeddingService and        *)
(* GraphBuilder.  An embedding is a sequence of numbers; only its length    *)
(* matters here, so every component is 1.                                    *)

EmbeddingModels == {"bert-a", "bert-b"}
NoModel == ""       \* expected_embedding_model left at None (or empty)

(* SentenceTransformer.get_sentence_embedding_dimension() of a loaded model *)
embedding_dim(model_name) == IF model_name = "bert-a" THEN 2 ELSE 3

Vec(dim) == [j \in 1..dim |-> 1]

(* terms: the AWS_TERMS that occur in the lower-cased name and description *)
TechniqueNode(i, embedding, terms) ==
    [id |-> i, embedding |-> embedding, terms |-> terms]

MitreAttackGraph(techniques, model_name, dim, now) ==
    [techniques |-> techniques, embedding_model |-> model_name,
     embedding_dim |-> dim, created_at |-> now]

(* MitreAttackGraph.to_dict / from_dict: a dict with one key per field *)
graph_to_dict(graph) ==
    [k \in {"techniques", "embedding_model", "embedding_dim", "created_at"} |->
        CASE k = "techniques"      -> graph.techniques
          [] k = "embedding_model" -> graph.embedding_model
          [] k = "embedding_dim"   -> graph.embedding_dim
          [] k = "created_at"      -> graph.created_at]

graph_from_dict(data) ==
    MitreAttackGraph(data["techniques"], data["embedding_model"],
                     data["embedding_dim"], data["created_at"])

(* the graph file: absent, cut short by a killed writer, or a JSON document *)
GraphTruncated(mtime) == [kind |-> "truncated", mtime |-> mtime]
GraphJson(data, mtime) == [kind |-> "json", data |-> data, mtime |-> mtime]

(* the STIX bundle: n is the number of attack-pattern objects it holds *)
NoBundle == [exists |-> FALSE, mtime |-> 0, n |-> 0]
Bundle(n, mtime) == [exists |-> TRUE, mtime |-> mtime, n |-> n]

(* GraphStore.load: FileNotFoundError for no file, ValueError otherwise *)
store_load(gf) ==
    IF gf.kind = "absent" THEN [kind |-> "raise", exc |-> "FileNotFoundError"]
    ELSE IF gf.kind = "truncated" THEN [kind |-> "raise", exc |-> "ValueError"]
    ELSE [kind |-> "graph", graph |-> graph_from_dict(gf.data)]

(* GraphStore.save: open(graph_path, 'w') and json.dump *)
store_save(graph, now) == GraphJson(graph_to_dict(graph), now)

store_exists(gf) == gf.kind # "absent"

is_stale_bad(gf, stix, expected_embedding_model) ==
    IF ~store_exists(gf) THEN TRUE
    ELSE IF ~stix.exists THEN FALSE
    ELSE IF expected_embedding_model # NoModel /\ store_load(gf).kind = "raise"
    THEN TRUE
    ELSE IF expected_embedding_model # NoModel
            /\ store_load(gf).graph.embedding_model # expected_embedding_model
    THEN TRUE
    ELSE stix.mtime > gf.mtime

(* GraphStore.is_stale *)
is_stale(gf, stix, expected_embedding_model) ==
    IF ~store_exists(gf) THEN TRUE
    ELSE IF expected_embedding_model # NoModel /\ store_load(gf).kind = "raise"
    THEN TRUE
    ELSE IF expected_embedding_model # NoModel
            /\ store_load(gf).graph.embedding_model # expected_embedding_model
    THEN TRUE
    ELSE IF ~stix.exists THEN FALSE
    ELSE stix.mtime > gf.mtime

(* EmbeddingService.get_batch_embeddings(texts) for n texts.                *)
(*   loads    whether SentenceTransformer(model_name) can be constructed    *)
(*   encodes  whether model.encode returns; when it raises the service      *)
(*            returns one empty list per text                               *)
get_batch_embeddings(n, model_name, loads, encodes) ==
    IF n = 0 THEN [kind |-> "ok", embeddings |-> <<>>]
    ELSE IF ~loads THEN [kind |-> "raise"]
    ELSE IF ~encodes THEN [kind |-> "ok", embeddings |-> [i \in 1..n |-> <<>>]]
    ELSE [kind |-> "ok", embeddings |-> [i \in 1..n |-> Vec(embedding_dim(model_name))]]

(* GraphBuilder.build_from_stix with _add_embeddings; the embedding_dim     *)
(* property loads the model when get_batch_embeddings had no text to embed  *)
build_from_stix(stix, model_name, loads, encodes, now) ==
    IF ~stix.exists THEN [kind |-> "raise"]
    ELSE LET e == get_batch_embeddings(stix.n, model_name, loads, encodes)
         IN  IF e.kind = "raise" \/ ~loads THEN [kind |-> "raise"]
             ELSE [kind |-> "built",
                   graph |-> MitreAttackGraph(
                       [i \in 1..stix.n |-> TechniqueNode(i, e.embeddings[i], {})],
                       model_name, embedding_dim(model_name), now)]

get_or_build_bad(gf, stix, embedding_model, force_rebuild, loads, encodes, now) ==
    LET need_build == ~store_exists(gf) \/ is_stale(gf, stix, embedding_model)
        l == store_load(gf)
        b == build_from_stix(stix, embedding_model, loads, encodes, now)
    IN  IF ~need_build /\ l.kind = "graph"
        THEN [kind |-> "loaded", graph |-> l.graph, gfile |-> gf]
        ELSE IF b.kind = "raise" THEN [kind |-> "raise", gfile |-> gf]
        ELSE [kind |-> "built", graph |-> b.graph, gfile |-> store_save(b.graph, now)]

(* GraphBuilder.get_or_build: what it returns and what it leaves on disk *)
get_or_build(gf, stix, embedding_model, force_rebuild, loads, encodes, now) ==
    LET need_build == force_rebuild \/ ~store_exists(gf)
                         \/ is_stale(gf, stix, embedding_model)
        l == store_load(gf)
        b == build_from_stix(stix, embedding_model, loads, encodes, now)
    IN  IF ~need_build /\ l.kind = "graph"
        THEN [kind |-> "loaded", graph |-> l.graph, gfile |-> gf]
        ELSE IF b.kind = "raise" THEN [kind |-> "raise", gfile |-> gf]
        ELSE [kind |-> "built", graph |-> b.graph, gfile |-> store_save(b.graph, now)]

----------------------------------------------------------------------------
(* VectorSearch.search and TTCMatcher.match_steps.  Similarities are kept   *)
(* in thousandths: 1000 stands for the cosine similarity 1.0.               *)

AWS_TERMS == 1..MaxTerms

Min2(a, b) == IF a < b THEN a ELSE b
Max2(a, b) == IF a > b THEN a ELSE b

Dot(a, b) ==
    LET RECURSIVE sum(_)
        sum(i) == IF i = 0 THEN 0 ELSE a[i] * b[i] + sum(i - 1)
    IN  sum(Len(a))

(* the Euclidean norm; the vectors used here have whole norms *)
Norm(a) == CHOOSE n \in 0..Dot(a, a) : n * n = Dot(a, a)

(* sklearn cosine_similarity of one query row and one matrix row *)
cosine_similarity(a, b) == (Dot(a, b) * 1000) \div (Norm(a) * Norm(b))

Perms(n) == {f \in [1..n -> 1..n] : \A i, j \in 1..n : f[i] = f[j] => i = j}

(* np.argsort: the indices in ascending order of similarity.  The order of  *)
(* equal elements is not specified by the default sort kind; tie gives the  *)
(* rank it happens to give them.                                            *)
argsort(similarities, tie) ==
    LET n == Len(similarities)
        before(i, j) == \/ similarities[i] < similarities[j]
                        \/ similarities[i] = similarities[j] /\ tie[i] < tie[j]
    IN  CHOOSE o \in Perms(n) : \A a, b \in 1..n : a < b => before(o[a], o[b])

(* the Python slice seq[-k:] for k >= 0; -0 is 0, so seq[-0:] is seq[0:] *)
slice_last(seq, k) ==
    IF k = 0 THEN seq ELSE SubSeq(seq, Max2(1, Len(seq) - k + 1), Len(seq))

(* the Python slice seq[::-1] *)
reversed(seq) == [i \in 1..Len(seq) |-> seq[Len(seq) + 1 - i]]

(* VectorSearch.search; a result is the index of the technique and its      *)
(* similarity                                                               *)
search(graph, query_embedding, top_k, min_similarity, tie) ==
    IF query_embedding = <<>> THEN <<>>
    ELSE LET similarities ==
                 [i \in 1..Len(graph) |->
                     cosine_similarity(query_embedding, graph[i].embedding)]
             top_indices == reversed(slice_last(argsort(similarities, tie), top_k))
             kept == SelectSeq(top_indices,
                               LAMBDA idx : ~(similarities[idx] < min_similarity))
         IN  [i \in 1..Len(kept) |->
                 [technique |-> kept[i], similarity |-> similarities[kept[i]]]]

(* matcher.py lines 101-103: the terms of the step found in the technique *)
matching_terms(step, technique) ==
    (step.terms \cap AWS_TERMS) \cap technique.terms

similarity_boost_bad(similarity, n) ==
    IF n > 0 THEN (similarity * (10 + n)) \div 10 ELSE similarity

(* matcher.py lines 105-107: similarity *= min(1.0 + 0.1 * n, 1.5) *)
similarity_boost(similarity, n) ==
    IF n > 0 THEN (similarity * Min2(10 + n, 15)) \div 10 ELSE similarity

(* matcher.py lines 95-119: the matches list built from the search results *)
step_matches(graph, step, search_results, min_similarity) ==
    LET boosted(r) ==
            similarity_boost(r.similarity,
                Cardinality(matching_terms(step, graph[r.technique])))
        dropped(r) ==
            /\ matching_terms(step, graph[r.technique]) # {}
            /\ boosted(r) < min_similarity
        kept == SelectSeq(search_results, LAMBDA r : ~dropped(r))
    IN  [i \in 1..Len(kept) |->
            [technique |-> kept[i].technique, similarity |-> boosted(kept[i])]]

step_entry_bad(graph, step, top_k, min_similarity, tie) ==
    IF step.embedding = <<>> THEN <<>>
    ELSE LET matches == step_matches(graph, step,
                 search(graph, step.embedding, top_k, min_similarity, tie),
                 min_similarity)
         IN  <<[attack_step |-> step, matches |-> matches]>>

(* matcher.py lines 76-126, one round of the loop: what it appends to       *)
(* results.  step.embedding is what get_embedding returned for the step,    *)
(* empty for an empty text or a failed encode                               *)
step_entry(graph, step, top_k, min_similarity, tie) ==
    IF step.embedding = <<>> THEN <<>>
    ELSE LET matches == step_matches(graph, step,
                 search(graph, step.embedding, top_k, min_similarity, tie),
                 min_similarity)
         IN  IF matches # <<>>
             THEN <<[attack_step |-> step, matches |-> matches]>>
             ELSE <<>>

(* matcher.py line 78: get_embedding(step) for a step with a text.  The    *)
(* service of the matcher has no model yet at the first step; when the      *)
(* model can not be constructed _load_model raises, and when encode fails   *)
(* the step has the empty embedding                                         *)
step_embedding(step, loads) ==
    IF ~loads THEN [kind |-> "raise"]
    ELSE [kind |-> "ok", embedding |-> step.embedding]

(* whether get_embedding raises out of the loop of match_steps *)
match_steps_raises(attack_steps, loads) ==
    \E k \in 1..Len(attack_steps) : step_embedding(attack_steps[k], loads).kind = "raise"

(* TTCMatcher.match_steps, when no get_embedding call raises *)
match_steps(graph, attack_steps, top_k, min_similarity, tie) ==
    LET RECURSIVE results(_)
        results(k) ==
            IF k = 0 THEN <<>>
            ELSE results(k - 1)
                 \o step_entry(graph, attack_steps[k], top_k, min_similarity, tie)
    IN  results(Len(attack_steps))

----------------------------------------------------------------------------
(* Values of the variables a specification does not use *)

Projects == {"projA", "projB"}
Model    == "model-1"

NoCall == [op |-> "none", stage |-> "setup", before |-> NewState(0, "projA", Model),
           raised |-> FALSE, ret |-> FALSE, msg |-> ""]
NoRet  == [kind |-> "none"]

StateIdle == ws = NewState(0, "projA", Model) /\ call = NoCall

DirEmpty ==
    /\ files = [n \in CheckpointNames |-> Absent]
    /\ archive = [k \in ArchiveKeys |-> Absent]

SMIdle ==
    /\ smLoaded = [name |-> "latest", ret |-> NoRet, expect |-> NoRet]
    /\ smSaved = [n \in CheckpointNames |-> NoRet]
    /\ smSaves = 0

OrchIdle ==
    /\ pc = "idle"
    /\ state = NewState(0, "projA", Model)
    /\ config = [project_path |-> "projA", bedrock_model |-> Model, resume |-> FALSE]
    /\ context = [k \in {"context_files", "extracted_info", "attack_trees", "summary"} |-> None]
    /\ attack_trees = None
    /\ extraction_result = None
    /\ invoked = <<>>
    /\ failed = {}
    /\ resumedFrom = [file |-> Absent, ret |-> NoRet]
    /\ result = [status |-> "none", stage |-> "setup"]
    /\ run = 0
    /\ hist = <<>>
    /\ archive_file = <<"latest", 0>>

NoInput == [graph |-> <<>>, steps |-> <<>>, top_k |-> 0, min_similarity |-> 0,
            loads |-> TRUE]
NoMatchCall == [op |-> "none", query |-> <<>>, raised |-> FALSE, ret |-> <<>>]

NoGraphCall ==
    [op |-> "none", before |-> [gfile |-> Absent, bundle |-> NoBundle],
     model |-> NoModel, force |-> FALSE, loads |-> FALSE, encodes |-> FALSE,
     stale |-> FALSE, ret |-> NoRet]

Unset == [kind |-> "unset"]     \* an attribute left at None by __init__

NoService == [model |-> FALSE, calls |-> <<>>]
NoMatcher == [graph |-> Unset, embedding_service |-> Unset, vector_search |-> Unset,
              graphs |-> 0, searches |-> 0, calls |-> <<>>]
NoTreeGen == [file |-> Absent, high |-> {}, attack_trees |-> <<>>,
              complete |-> FALSE, runs |-> 0]

LibIdle ==
    /\ embed = NoService
    /\ matcher = NoMatcher
    /\ treegen = NoTreeGen

MitreIdle ==
    /\ gfile = Absent
    /\ bundle = NoBundle
    /\ gcall = NoGraphCall
    /\ minput = NoInput
    /\ mcall = NoMatchCall
    /\ LibIdle

graphVars == <<gfile, bundle, gcall>>
matchVars == <<minput, mcall>>
libVars   == <<embed, matcher, treegen>>
mitreVars == <<graphVars, matchVars, libVars>>
stateVars == <<ws, call>>
smVars    == <<smLoaded, smSaved, smSaves>>
dirVars   == <<files, archive>>
orchVars  == <<pc, state, config, context, attack_trees, extraction_result,
               invoked, failed, resumedFrom, result, run, hist, archive_file>>

(* time passes *)
Tick ==
    /\ clock < MaxClock
    /\ clock' = clock + 1
    /\ UNCHANGED <<stateVars, mitreVars, smVars, dirVars, orchVars>>

----------------------------------------------------------------------------
(* SpecState: the methods of a ThreatForestState, called on any state       *)
(* object that the model can hold (any stage, in either representation, and *)
(* any completion flags).                                                     *)

AllStates ==
    { [NewState(0, "projA", Model) EXCEPT
          !.current_stage = [v |-> st, enum |-> e],
          !.setup_complete = f[1], !.context_complete = f[2],
          !.extraction_complete = f[3], !.tree_generation_complete = f[4],
          !.mapping_complete = f[5], !.summary_complete = f[6]] :
      st \in WorkflowStage, e \in BOOLEAN, f \in [1..6 -> BOOLEAN] }

InitState ==
    /\ clock = 0
    /\ ws \in AllStates
    /\ call = NoCall
    /\ DirEmpty /\ SMIdle /\ OrchIdle /\ MitreIdle

CallCanTransitionTo(stage) ==
    /\ call' = [op |-> "can_transition_to", stage |-> stage, before |-> ws,
                raised |-> FALSE, ret |-> can_transition_to(ws, stage), msg |-> ""]
    /\ UNCHANGED <<clock, ws, smVars, dirVars, orchVars, mitreVars>>

CallAdvanceTo(stage) ==
    LET r == advance_to(ws, stage, clock)
    IN  /\ ws' = r.self
        /\ call' = [op |-> "advance_to", stage |-> stage, before |-> ws,
                    raised |-> r.raised, ret |-> FALSE, msg |-> ""]
        /\ UNCHANGED <<clock, smVars, dirVars, orchVars, mitreVars>>

CallIsValidForResume ==
    LET r == is_valid_for_resume(ws)
    IN  /\ call' = [op |-> "is_valid_for_resume", stage |-> "setup", before |-> ws,
                    raised |-> FALSE, ret |-> r.ok, msg |-> r.msg]
        /\ UNCHANGED <<clock, ws, smVars, dirVars, orchVars, mitreVars>>

NextState ==
    \/ \E stage \in WorkflowStage : CallCanTransitionTo(stage)
    \/ \E stage \in WorkflowStage : CallAdvanceTo(stage)
    \/ CallIsValidForResume
    \/ Tick

SpecState == InitState /\ [][NextState]_vars

----------------------------------------------------------------------------
(* SpecSM: save, load, delete and archive calls on StateManager objects     *)
(* over one state directory.  A StateManager holds nothing but the path of  *)
(* the directory, so a call on a new instance reads the same files.          *)

SampleStates ==
    { [NewState(0, "projA", Model) EXCEPT
          !.current_stage = [v |-> st, enum |-> e],
          !.setup_complete = (st # "setup"),
          !.context_files = IF st = "setup" THEN None
                            ELSE Payload("context_analysis", 1)] :
      st \in {"setup", "complete"}, e \in BOOLEAN }

InitSM ==
    /\ clock = 0
    /\ DirEmpty /\ SMIdle /\ StateIdle /\ OrchIdle /\ MitreIdle

SMSave(self, name) ==
    /\ smSaves < MaxSaves
    /\ smSaves' = smSaves + 1
    /\ files' = save_checkpoint(files, self, name)
    /\ smSaved' = [smSaved EXCEPT ![name] =
                      [kind |-> "state", state |-> self,
                       n |-> IF smSaved[name].kind = "state"
                             THEN smSaved[name].n + 1 ELSE 1]]
    /\ UNCHANGED <<clock, archive, smLoaded, stateVars, mitreVars, orchVars>>

SMLoad(name) ==
    /\ smLoaded' = [name |-> name, ret |-> load_checkpoint(files, name),
                    expect |-> smSaved[name]]
    /\ UNCHANGED <<clock, files, archive, smSaved, smSaves, stateVars, mitreVars, orchVars>>

SMDelete(name) ==
    /\ files' = delete_checkpoint(files, name)
    /\ smSaved' = [smSaved EXCEPT ![name] = NoRet]
    /\ UNCHANGED <<clock, archive, smLoaded, smSaves, stateVars, mitreVars, orchVars>>

SMArchive(name) ==
    /\ archive' = archive_checkpoint(files, archive, name, clock)
    /\ UNCHANGED <<clock, files, smVars, stateVars, mitreVars, orchVars>>

SMCleanupCompleted ==
    /\ files' = cleanup_completed_states(files)
    /\ smSaved' = [n \in CheckpointNames |->
                     IF files'[n].kind = "absent" THEN NoRet ELSE smSaved[n]]
    /\ UNCHANGED <<clock, archive, smLoaded, smSaves, stateVars, mitreVars, orchVars>>

NextSM ==
    \/ \E self \in SampleStates, name \in CheckpointNames : SMSave(self, name)
    \/ \E name \in CheckpointNames : SMLoad(name)
    \/ \E name \in CheckpointNames : SMDelete(name)
    \/ \E name \in CheckpointNames : SMArchive(name)
    \/ SMCleanupCompleted
    \/ Tick

SpecSM == InitSM /\ [][NextSM]_vars

----------------------------------------------------------------------------
(* Spec: ThreatForestOrchestrator.execute_workflow.  Each call is a process *)
(* of its own over the shared state directory; it may be killed anywhere.   *)

EmptyContext ==
    [k \in {"context_files", "extracted_info", "attack_trees", "summary"} |-> None]

(* ThreatForestState(project_path=config.project_path, ...); the keyword    *)
(* threat_model_path is not a field of the model and is ignored              *)
FreshState(cfg, now) == NewState(now, cfg.project_path, cfg.bedrock_model)

(* _initialize_state: what it decides from the loaded checkpoint            *)
(*   "resume"  return existing_state                                         *)
(*   "archive" archive_checkpoint("latest"), then a fresh state              *)
(*   "fresh"   a fresh state                                                 *)
initialize_decision_bad(existing, cfg) ==
    IF existing.kind = "state"
    THEN IF ~is_valid_for_resume(existing.state).ok THEN "fresh"
         ELSE "archive"
    ELSE "fresh"

initialize_decision(existing, cfg) ==
    IF existing.kind = "state"
    THEN IF ~is_valid_for_resume(existing.state).ok THEN "fresh"
         ELSE IF cfg.resume THEN "resume"
         ELSE "archive"
    ELSE "fresh"

Init ==
    /\ clock = 0
    /\ DirEmpty /\ SMIdle /\ StateIdle /\ OrchIdle /\ MitreIdle

Saved(label) == [ev |-> "save", at |-> label]
Archived(label) == [ev |-> "archive", at |-> label]

(* return from the except handler of execute_workflow *)
ReturnError(self) ==
    /\ pc' = "idle"
    /\ state' = self
    /\ result' = [status |-> "error", stage |-> self.current_stage.v]

(* execute_workflow is called on a new orchestrator: lines 98-111 *)
Start(cfg) ==
    /\ pc = "idle"
    /\ run < MaxRuns
    /\ run' = run + 1
    /\ config' = cfg
    /\ context' = EmptyContext
    /\ attack_trees' = None
    /\ extraction_result' = None
    /\ invoked' = <<>>
    /\ failed' = {}
    /\ hist' = <<>>
    /\ LET existing == load_checkpoint(files, "latest")
       IN  /\ resumedFrom' = [file |-> files["latest"], ret |-> existing]
           /\ IF existing.kind = "raise"
              THEN \* json.load or the validation raises outside the try block
                   /\ pc' = "idle"
                   /\ result' = [status |-> "raised", stage |-> "setup"]
                   /\ UNCHANGED <<state, archive, archive_file>>
              ELSE LET d == initialize_decision(existing, cfg)
                   IN  /\ result' = [status |-> "running", stage |-> "setup"]
                       /\ IF d = "resume"
                          THEN /\ state' = existing.state
                               /\ pc' = "setup"
                               /\ UNCHANGED <<archive, archive_file>>
                          ELSE IF d = "archive"
                          THEN /\ state' = state
                               /\ archive_file' = <<"latest", clock>>
                               /\ archive' = archive_open(files, archive, "latest", clock)
                               /\ pc' = "init_archive_write"
                          ELSE /\ state' = FreshState(cfg, clock)
                               /\ pc' = "setup"
                               /\ UNCHANGED <<archive, archive_file>>
    /\ UNCHANGED <<clock, files, stateVars, mitreVars, smVars>>

(* _initialize_state, line 83 (second half of write_text) to line 89 *)
InitArchiveWrite ==
    /\ pc = "init_archive_write"
    /\ archive' = archive_write(files, archive, archive_file[1], archive_file[2])
    /\ hist' = Append(hist, Archived("init"))
    /\ state' = FreshState(config, clock)
    /\ pc' = "setup"
    /\ UNCHANGED <<clock, files, stateVars, mitreVars, smVars, config, context, attack_trees,
                   extraction_result, invoked, failed, resumedFrom, result, run,
                   archive_file>>

(* lines 116-124, up to the open() of save_checkpoint *)
StageSetup ==
    /\ pc = "setup"
    /\ IF ~state.setup_complete
       THEN /\ state' = [state EXCEPT !.setup_complete = TRUE,
                                      !.setup_result = Payload("setup", run)]
            /\ files' = save_open(files, "latest")
            /\ pc' = "setup_write"
       ELSE /\ pc' = "context_analysis"
            /\ UNCHANGED <<state, files>>
    /\ UNCHANGED <<clock, archive, stateVars, mitreVars, smVars, config, context, attack_trees,
                   extraction_result, invoked, failed, resumedFrom, result, run,
                   hist, archive_file>>

(* lines 135-154, up to the open() of save_checkpoint *)
StageContextAnalysis ==
    /\ pc = "context_analysis"
    /\ UNCHANGED <<clock, archive, stateVars, mitreVars, smVars, config, attack_trees,
                   extraction_result, resumedFrom, run, hist, archive_file>>
    /\ IF state.context_complete
       THEN /\ context' = [context EXCEPT !["context_files"] = state.context_files]
            /\ pc' = "extraction"
            /\ UNCHANGED <<state, files, invoked, failed, result>>
       ELSE LET a == advance_to(state, "context_analysis", clock)
            IN  IF a.raised
                THEN /\ ReturnError(a.self)
                     /\ UNCHANGED <<files, context, invoked, failed>>
                ELSE /\ invoked' = Append(invoked, "context_analysis")
                     /\ \/ \* context_tool.run returns
                           /\ state' = [a.self EXCEPT
                                   !.context_files = Payload("context_analysis", run),
                                   !.context_complete = TRUE]
                           /\ files' = save_open(files, "latest")
                           /\ pc' = "context_analysis_write"
                           /\ UNCHANGED <<context, failed, result>>
                        \/ \* context_tool.run raises
                           /\ failed' = failed \cup {"context_analysis"}
                           /\ ReturnError(a.self)
                           /\ UNCHANGED <<files, context>>

(* lines 165-194, up to the open() of save_checkpoint *)
StageExtraction ==
    /\ pc = "extraction"
    /\ UNCHANGED <<clock, archive, stateVars, mitreVars, smVars, config, attack_trees,
                   resumedFrom, run, hist, archive_file>>
    /\ IF state.extraction_complete
       THEN /\ context' = [context EXCEPT !["extracted_info"] = state.extracted_info]
            /\ extraction_result' = state.extracted_info
            /\ pc' = "tree_generation"
            /\ UNCHANGED <<state, files, invoked, failed, result>>
       ELSE LET a == advance_to(state, "extraction", clock)
            IN  IF a.raised \/ state.context_files = None
                THEN \* advance_to raises, or dict(None) raises TypeError
                     /\ ReturnError(a.self)
                     /\ UNCHANGED <<files, context, invoked, failed, extraction_result>>
                ELSE /\ invoked' = Append(invoked, "extraction")
                     /\ \/ \* extraction_tool.run returns
                           /\ state' = [a.self EXCEPT
                                   !.extracted_info = Payload("extraction", run),
                                   !.extraction_complete = TRUE]
                           /\ extraction_result' = Payload("extraction", run)
                           /\ files' = save_open(files, "latest")
                           /\ pc' = "extraction_write"
                           /\ UNCHANGED <<context, failed, result>>
                        \/ \* extraction_tool.run raises
                           /\ failed' = failed \cup {"extraction"}
                           /\ ReturnError(a.self)
                           /\ UNCHANGED <<files, context, extraction_result>>

(* lines 196-278, up to the open() of save_checkpoint *)
StageTreeGeneration ==
    /\ pc = "tree_generation"
    /\ UNCHANGED <<clock, archive, stateVars, mitreVars, smVars, config, extraction_result,
                   resumedFrom, run, hist, archive_file>>
    /\ IF extraction_result = None
       THEN \* line 197: None has no attribute get
            /\ ReturnError(state)
            /\ UNCHANGED <<files, context, attack_trees, invoked, failed>>
       ELSE IF state.tree_generation_complete
       THEN /\ attack_trees' = state.attack_trees
            /\ context' = [context EXCEPT !["attack_trees"] = state.attack_trees]
            /\ pc' = "mapping"
            /\ UNCHANGED <<state, files, invoked, failed, result>>
       ELSE LET a == advance_to(state, "tree_generation", clock)
            IN  IF a.raised
                THEN /\ ReturnError(a.self)
                     /\ UNCHANGED <<files, context, attack_trees, invoked, failed>>
                ELSE /\ invoked' = Append(invoked, "tree_generation")
                     /\ \/ \* tree_generator_tool.run returns
                           /\ state' = [a.self EXCEPT
                                   !.attack_trees = Payload("tree_generation", run),
                                   !.tree_generation_complete = TRUE]
                           /\ attack_trees' = Payload("tree_generation", run)
                           /\ files' = save_open(files, "latest")
                           /\ pc' = "tree_generation_write"
                           /\ UNCHANGED <<context, failed, result>>
                        \/ \* tree_generator_tool.run raises
                           /\ failed' = failed \cup {"tree_generation"}
                           /\ ReturnError(a.self)
                           /\ UNCHANGED <<files, context, attack_trees>>

(* lines 289-332, up to the open() of save_checkpoint; the except branch    *)
(* marks the stage complete and goes on without a checkpoint                 *)
StageMapping ==
    /\ pc = "mapping"
    /\ UNCHANGED <<clock, archive, stateVars, mitreVars, smVars, config, extraction_result,
                   resumedFrom, run, hist, archive_file, result, context>>
    /\ IF state.mapping_complete
       THEN /\ pc' = "summary"
            /\ UNCHANGED <<state, files, invoked, failed, attack_trees>>
       ELSE LET a == advance_to(state, "mapping", clock)
            IN  IF a.raised
                THEN /\ state' = [a.self EXCEPT !.mapping_complete = TRUE]
                     /\ pc' = "summary"
                     /\ UNCHANGED <<files, invoked, failed, attack_trees>>
                ELSE /\ invoked' = Append(invoked, "mapping")
                     /\ \/ \* ttc_tool.run returns
                           /\ state' = [a.self EXCEPT
                                   !.mapped_trees = Payload("mapping", run),
                                   !.attack_trees = Payload("mapping", run),
                                   !.mapping_complete = TRUE]
                           /\ attack_trees' = Payload("mapping", run)
                           /\ files' = save_open(files, "latest")
                           /\ pc' = "mapping_write"
                           /\ UNCHANGED failed
                        \/ \* ttc_tool.run raises
                           /\ failed' = failed \cup {"mapping"}
                           /\ state' = [a.self EXCEPT !.mapping_complete = TRUE]
                           /\ pc' = "summary"
                           /\ UNCHANGED <<files, attack_trees>>

(* lines 343-354 up to the open() of save_checkpoint, and lines 374-384 *)
StageSummary ==
    /\ pc = "summary"
    /\ UNCHANGED <<clock, archive, stateVars, mitreVars, smVars, config, extraction_result,
                   resumedFrom, run, hist, archive_file, attack_trees>>
    /\ IF state.summary_complete
       THEN /\ context' = [context EXCEPT !["summary"] = state.output_files]
            /\ pc' = "idle"
            /\ result' = [status |-> "success", stage |-> state.current_stage.v]
            /\ UNCHANGED <<state, files, invoked, failed>>
       ELSE LET a == advance_to(state, "summary", clock)
            IN  IF a.raised
                THEN /\ ReturnError(a.self)
                     /\ UNCHANGED <<files, context, invoked, failed>>
                ELSE /\ invoked' = Append(invoked, "summary")
                     /\ \/ \* summary_tool.run returns
                           LET done == [a.self EXCEPT
                                           !.output_files = Payload("summary", run),
                                           !.summary_complete = TRUE]
                               c == advance_to(done, "complete", clock)
                           IN  IF c.raised
                               THEN /\ ReturnError(c.self)
                                    /\ UNCHANGED <<files, context, failed>>
                               ELSE /\ state' = c.self
                                    /\ files' = save_open(files, "latest")
                                    /\ pc' = "summary_write"
                                    /\ UNCHANGED <<context, failed, result>>
                        \/ \* summary_tool.run raises
                           /\ failed' = failed \cup {"summary"}
                           /\ ReturnError(a.self)
                           /\ UNCHANGED <<files, context>>

(* the write and close of save_checkpoint and the context.add calls after   *)
(* it: lines 124, 142-144, 181-183, 265-267, 314-316, 354-356                *)
NextPc(p) ==
    CASE p = "setup_write"            -> "context_analysis"
      [] p = "context_analysis_write" -> "extraction"
      [] p = "extraction_write"       -> "tree_generation"
      [] p = "tree_generation_write"  -> "mapping"
      [] p = "mapping_write"          -> "summary"
      [] p = "summary_write"          -> "final_archive"

ContextAfter(p, ctx, self) ==
    CASE p = "setup_write"            -> ctx
      [] p = "context_analysis_write" -> [ctx EXCEPT !["context_files"] = self.context_files]
      [] p = "extraction_write"       -> [ctx EXCEPT !["extracted_info"] = self.extracted_info]
      [] p = "tree_generation_write"  -> [ctx EXCEPT !["attack_trees"] = self.attack_trees]
      [] p = "mapping_write"          -> [ctx EXCEPT !["attack_trees"] = self.attack_trees]
      [] p = "summary_write"          -> [ctx EXCEPT !["summary"] = self.output_files]

WritePcs ==
    {"setup_write", "context_analysis_write", "extraction_write",
     "tree_generation_write", "mapping_write", "summary_write"}

WriteCheckpoint ==
    /\ pc \in WritePcs
    /\ files' = save_write(files, "latest", state)
    /\ hist' = Append(hist, Saved(pc))
    /\ context' = ContextAfter(pc, context, state)
    /\ pc' = NextPc(pc)
    /\ UNCHANGED <<clock, archive, stateVars, mitreVars, smVars, state, config, attack_trees,
                   extraction_result, invoked, failed, resumedFrom, result, run,
                   archive_file>>

(* line 367: archive_checkpoint("latest"), up to the open of write_text *)
FinalArchiveOpen ==
    /\ pc = "final_archive"
    /\ archive_file' = <<"latest", clock>>
    /\ archive' = archive_open(files, archive, "latest", clock)
    /\ pc' = "final_archive_write"
    /\ UNCHANGED <<clock, files, stateVars, mitreVars, smVars, state, config, context,
                   attack_trees, extraction_result, invoked, failed, resumedFrom,
                   result, run, hist>>

(* line 367, the write of write_text *)
FinalArchiveWrite ==
    /\ pc = "final_archive_write"
    /\ archive' = archive_write(files, archive, archive_file[1], archive_file[2])
    /\ hist' = Append(hist, Archived("final"))
    /\ pc' = "cleanup"
    /\ UNCHANGED <<clock, files, stateVars, mitreVars, smVars, state, config, context,
                   attack_trees, extraction_result, invoked, failed, resumedFrom,
                   result, run, archive_file>>

(* lines 368-384: cleanup_completed_states() and the success return *)
CleanupAndReturn ==
    /\ pc = "cleanup"
    /\ files' = cleanup_completed_states(files)
    /\ pc' = "idle"
    /\ result' = [status |-> "success", stage |-> state.current_stage.v]
    /\ UNCHANGED <<clock, archive, stateVars, mitreVars, smVars, state, config, context,
                   attack_trees, extraction_result, invoked, failed, resumedFrom,
                   run, hist, archive_file>>

(* the process is killed: what it held in memory is gone, the files stay *)
Kill ==
    /\ pc # "idle"
    /\ pc' = "idle"
    /\ result' = [status |-> "killed", stage |-> state.current_stage.v]
    /\ state' = NewState(0, "projA", Model)
    /\ context' = EmptyContext
    /\ attack_trees' = None
    /\ extraction_result' = None
    /\ archive_file' = <<"latest", 0>>
    /\ UNCHANGED <<clock, files, archive, stateVars, mitreVars, smVars, config, invoked,
                   failed, resumedFrom, run, hist>>

Configs ==
    [project_path : Projects, bedrock_model : {Model}, resume : BOOLEAN]

Next ==
    \/ \E cfg \in Configs : Start(cfg)
    \/ InitArchiveWrite
    \/ StageSetup
    \/ StageContextAnalysis
    \/ StageExtraction
    \/ StageTreeGeneration
    \/ StageMapping
    \/ StageSummary
    \/ WriteCheckpoint
    \/ FinalArchiveOpen
    \/ FinalArchiveWrite
    \/ CleanupAndReturn
    \/ Kill
    \/ Tick

Spec == Init /\ [][Next]_vars

----------------------------------------------------------------------------
(* SpecGraph: calls of GraphStore.is_stale, GraphBuilder.build_from_stix    *)
(* and GraphBuilder.get_or_build over one graph file and one bundle, while  *)
(* the bundle is replaced or removed and a writer of the graph file may be  *)
(* killed between the open and the dump.  gcall holds the last call as long *)
(* as the files are as that call left them.                                 *)

InitGraph ==
    /\ clock = 0
    /\ DirEmpty /\ SMIdle /\ StateIdle /\ OrchIdle /\ MitreIdle

othersIdle == <<stateVars, smVars, dirVars, orchVars, matchVars, libVars>>

BundleWrite(n) ==
    /\ bundle' = Bundle(n, clock)
    /\ gcall' = NoGraphCall
    /\ UNCHANGED <<clock, gfile, othersIdle>>

BundleRemove ==
    /\ bundle.exists
    /\ bundle' = NoBundle
    /\ gcall' = NoGraphCall
    /\ UNCHANGED <<clock, gfile, othersIdle>>

(* graph_store.py:75, a writer killed after open(graph_path, 'w') *)
GraphSaveKilled ==
    /\ gfile' = GraphTruncated(clock)
    /\ gcall' = NoGraphCall
    /\ UNCHANGED <<clock, bundle, othersIdle>>

CallIsStale(expected) ==
    /\ gcall' = [op |-> "is_stale", before |-> [gfile |-> gfile, bundle |-> bundle],
                 model |-> expected, force |-> FALSE,
                 loads |-> FALSE, encodes |-> FALSE,
                 stale |-> is_stale(gfile, bundle, expected), ret |-> NoRet]
    /\ UNCHANGED <<clock, gfile, bundle, othersIdle>>

CallBuildFromStix(model_name) ==
    \E loads \in BOOLEAN, encodes \in BOOLEAN :
        /\ gcall' = [op |-> "build_from_stix",
                     before |-> [gfile |-> gfile, bundle |-> bundle],
                     model |-> model_name, force |-> FALSE,
                     loads |-> loads, encodes |-> encodes, stale |-> FALSE,
                     ret |-> build_from_stix(bundle, model_name, loads, encodes, clock)]
        /\ UNCHANGED <<clock, gfile, bundle, othersIdle>>

CallGetOrBuild(embedding_model, force_rebuild) ==
    \E loads \in BOOLEAN, encodes \in BOOLEAN :
        LET r == get_or_build(gfile, bundle, embedding_model, force_rebuild,
                              loads, encodes, clock)
        IN  /\ gfile' = r.gfile
            /\ gcall' = [op |-> "get_or_build",
                         before |-> [gfile |-> gfile, bundle |-> bundle],
                         model |-> embedding_model, force |-> force_rebuild,
                         loads |-> loads, encodes |-> encodes,
                         stale |-> FALSE, ret |-> r]
            /\ UNCHANGED <<clock, bundle, othersIdle>>

NextGraph ==
    \/ \E n \in 0..MaxTechniques : BundleWrite(n)
    \/ BundleRemove
    \/ GraphSaveKilled
    \/ \E expected \in EmbeddingModels \cup {NoModel} : CallIsStale(expected)
    \/ \E m \in EmbeddingModels : CallBuildFromStix(m)
    \/ \E m \in EmbeddingModels, force \in BOOLEAN : CallGetOrBuild(m, force)
    \/ Tick

SpecGraph == InitGraph /\ [][NextGraph]_vars

----------------------------------------------------------------------------
(* SpecMatch: VectorSearch.search and TTCMatcher.match_steps applied to a   *)
(* graph, a list of attack steps, a top_k and a min_similarity drawn from   *)
(* small sets.  Both are pure, so a behaviour is one call on its inputs.    *)

AllTerms == 1..MaxTerms

(* techniques: one near the steps that names one term, one along the first *)
(* axis that names every term and one along the second axis that names     *)
(* none; a graph may hold the same sample at two positions, which is a tie  *)
(* for every query                                                          *)
TechSamples ==
    { [embedding |-> <<4, 3>>, terms |-> {1}],
      [embedding |-> <<1, 0>>, terms |-> AllTerms],
      [embedding |-> <<0, 1>>, terms |-> {}] }

(* steps: one whose encode fails (empty embedding), one that names no term, *)
(* and one with another embedding that names every term                     *)
StepSamples ==
    { [embedding |-> <<>>, terms |-> {1}],
      [embedding |-> <<4, 3>>, terms |-> {}],
      [embedding |-> <<3, 4>>, terms |-> AllTerms] }

Graphs ==
    UNION { { [i \in 1..n |-> TechniqueNode(i, f[i].embedding, f[i].terms)] :
              f \in [1..n -> TechSamples] } : n \in 1..MaxTechniques }

StepLists == UNION { [1..n -> StepSamples] : n \in 0..MaxSteps }

(* the default threshold of TTCMatcher and a stricter one *)
Thresholds == {300, 650}

InitMatch ==
    /\ clock = 0
    /\ DirEmpty /\ SMIdle /\ StateIdle /\ OrchIdle
    /\ gfile = Absent /\ bundle = NoBundle /\ gcall = NoGraphCall /\ LibIdle
    /\ minput \in [graph : Graphs, steps : StepLists, top_k : 0..MaxTopK,
                   min_similarity : Thresholds, loads : BOOLEAN]
    /\ mcall = NoMatchCall

CallSearch(k) ==
    /\ mcall.op = "none"
    /\ k \in 1..Len(minput.steps)
    /\ \E tie \in Perms(Len(minput.graph)) :
          mcall' = [op |-> "search", query |-> minput.steps[k].embedding,
                    raised |-> FALSE,
                    ret |-> search(minput.graph, minput.steps[k].embedding,
                                   minput.top_k, minput.min_similarity, tie)]
    /\ UNCHANGED <<clock, minput, graphVars, stateVars, smVars, dirVars, orchVars,
                   libVars>>

CallMatchSteps ==
    /\ mcall.op = "none"
    /\ \E tie \in Perms(Len(minput.graph)) :
          mcall' = IF match_steps_raises(minput.steps, minput.loads)
                   THEN [op |-> "match_steps", query |-> <<>>, raised |-> TRUE,
                         ret |-> <<>>]
                   ELSE [op |-> "match_steps", query |-> <<>>, raised |-> FALSE,
                         ret |-> match_steps(minput.graph, minput.steps,
                                     minput.top_k, minput.min_similarity, tie)]
    /\ UNCHANGED <<clock, minput, graphVars, stateVars, smVars, dirVars, orchVars,
                   libVars>>

NextMatch ==
    \/ \E k \in 1..MaxSteps : CallSearch(k)
    \/ CallMatchSteps

SpecMatch == InitMatch /\ [][NextMatch]_vars

----------------------------------------------------------------------------
(* SpecEmbed: get_embedding, get_batch_embeddings and embedding_dim called  *)
(* in any order on one EmbeddingService.  embed.model tells whether         *)
(* self.model is set; embed.calls lists the calls made so far.  Per call:   *)
(*   empty   the text is '' (or None), the list of texts is []              *)
(*   tried   SentenceTransformer(model_name) was called                     *)
(*   loaded  it returned, and self.model was assigned                       *)
(*   failed  the constructor or model.encode raised                         *)
(*   raised  the call raised to its caller                                  *)
(*   ret     what the call returned: "empty" is [] for get_embedding and a  *)
(*           list of [] (or []) for get_batch_embeddings                    *)

MaxCalls == 3       \* calls on one EmbeddingService, on one TTCMatcher

EmbeddingService_load_model_bad(model, loads) ==
    [model |-> loads, tried |-> TRUE, loaded |-> loads, raised |-> ~loads]

(* EmbeddingService._load_model: the constructor runs only while self.model *)
(* is None; when it raises, the exception is logged and raised again, and   *)
(* self.model stays None                                                    *)
EmbeddingService_load_model(model, loads) ==
    IF model
    THEN [model |-> TRUE, tried |-> FALSE, loaded |-> FALSE, raised |-> FALSE]
    ELSE [model |-> loads, tried |-> TRUE, loaded |-> loads, raised |-> ~loads]

EmbedCall(op, empty, l, model_failed, raised, ret) ==
    [op |-> op, empty |-> empty, tried |-> l.tried, loaded |-> l.loaded,
     failed |-> model_failed, raised |-> raised, ret |-> ret]

NotLoading(model) ==
    [model |-> model, tried |-> FALSE, loaded |-> FALSE, raised |-> FALSE]

(* EmbeddingService.get_embedding: _load_model is called before the try,    *)
(* model.encode inside it, and the except clause returns []                 *)
EmbeddingService_get_embedding(model, empty, loads, encodes) ==
    IF empty
    THEN [model |-> model,
          call |-> EmbedCall("get_embedding", TRUE, NotLoading(model),
                             FALSE, FALSE, "empty")]
    ELSE LET l == EmbeddingService_load_model(model, loads)
         IN  [model |-> l.model,
              call |-> IF l.raised
                       THEN EmbedCall("get_embedding", FALSE, l, TRUE, TRUE, "none")
                       ELSE IF ~encodes
                       THEN EmbedCall("get_embedding", FALSE, l, TRUE, FALSE, "empty")
                       ELSE EmbedCall("get_embedding", FALSE, l, FALSE, FALSE, "vector")]

(* EmbeddingService.get_batch_embeddings: as get_embedding, with one [] per *)
(* text when model.encode raises                                            *)
EmbeddingService_get_batch_embeddings(model, empty, loads, encodes) ==
    IF empty
    THEN [model |-> model,
          call |-> EmbedCall("get_batch_embeddings", TRUE, NotLoading(model),
                             FALSE, FALSE, "empty")]
    ELSE LET l == EmbeddingService_load_model(model, loads)
         IN  [model |-> l.model,
              call |-> IF l.raised
                       THEN EmbedCall("get_batch_embeddings", FALSE, l, TRUE, TRUE,
                                      "none")
                       ELSE IF ~encodes
                       THEN EmbedCall("get_batch_embeddings", FALSE, l, TRUE, FALSE,
                                      "empty")
                       ELSE EmbedCall("get_batch_embeddings", FALSE, l, FALSE, FALSE,
                                      "vectors")]

(* the embedding_dim property: _load_model, then the dimension of the model *)
EmbeddingService_embedding_dim(model, loads) ==
    LET l == EmbeddingService_load_model(model, loads)
    IN  [model |-> l.model,
         call |-> IF l.raised
                  THEN EmbedCall("embedding_dim", FALSE, l, TRUE, TRUE, "none")
                  ELSE EmbedCall("embedding_dim", FALSE, l, FALSE, FALSE, "dim")]

InitEmbed ==
    /\ clock = 0
    /\ DirEmpty /\ SMIdle /\ StateIdle /\ OrchIdle /\ MitreIdle

EmbedDone(r) ==
    /\ embed' = [model |-> r.model, calls |-> Append(embed.calls, r.call)]
    /\ UNCHANGED <<clock, stateVars, smVars, dirVars, orchVars, graphVars, matchVars,
                   matcher, treegen>>

CallGetEmbedding(empty) ==
    /\ Len(embed.calls) < MaxCalls
    /\ \E loads \in BOOLEAN, encodes \in BOOLEAN :
          EmbedDone(EmbeddingService_get_embedding(embed.model, empty, loads, encodes))

CallGetBatchEmbeddings(empty) ==
    /\ Len(embed.calls) < MaxCalls
    /\ \E loads \in BOOLEAN, encodes \in BOOLEAN :
          EmbedDone(EmbeddingService_get_batch_embeddings(embed.model, empty, loads,
                                                          encodes))

CallEmbeddingDim ==
    /\ Len(embed.calls) < MaxCalls
    /\ \E loads \in BOOLEAN :
          EmbedDone(EmbeddingService_embedding_dim(embed.model, loads))

NextEmbed ==
    \/ \E empty \in BOOLEAN : CallGetEmbedding(empty)
    \/ \E empty \in BOOLEAN : CallGetBatchEmbeddings(empty)
    \/ CallEmbeddingDim

SpecEmbed == InitEmbed /\ [][NextEmbed]_vars

----------------------------------------------------------------------------
(* SpecMatcher: match_steps called on one TTCMatcher, over the graph file   *)
(* and the bundle of SpecGraph, which change between the calls.             *)
(*   matcher.graph, .embedding_service, .vector_search   the attributes     *)
(*   matcher.graphs     how often get_or_build returned a graph to it       *)
(*   matcher.searches   how often VectorSearch(graph) returned              *)
(*   matcher.calls      per match_steps call, "ok" or "raise"               *)

ConfigModel == "bert-a"     \* config.embeddings_model

Set(v) == [kind |-> "set", value |-> v]

(* VectorSearch.__init__: np.array over the embeddings of the techniques,   *)
(* which raises for embeddings of different lengths                         *)
VectorSearch_init(graph) ==
    IF \E i, j \in 1..Len(graph.techniques) :
           Len(graph.techniques[i].embedding) # Len(graph.techniques[j].embedding)
    THEN [kind |-> "raise"]
    ELSE Set(graph)

TTCMatcher_ensure_initialized_bad(m, gf, stix, loads, encodes, now) ==
    LET r == get_or_build(gf, stix, ConfigModel, FALSE, loads, encodes, now)
        v == VectorSearch_init(r.graph)
    IN  IF r.kind = "raise"
        THEN [matcher |-> m, gfile |-> r.gfile, raised |-> TRUE]
        ELSE [matcher |-> [m EXCEPT !.graph = Set(r.graph), !.graphs = @ + 1,
                                    !.embedding_service = Set(FALSE),
                                    !.vector_search = v, !.searches = @ + 1],
              gfile |-> r.gfile, raised |-> FALSE]

(* TTCMatcher._ensure_initialized: nothing to do once self.graph is set;    *)
(* otherwise the three attributes are assigned in the order graph,          *)
(* embedding_service, vector_search, and an exception ends the call at the  *)
(* statement that raised                                                    *)
TTCMatcher_ensure_initialized(m, gf, stix, loads, encodes, now) ==
    IF m.graph # Unset THEN [matcher |-> m, gfile |-> gf, raised |-> FALSE]
    ELSE LET r == get_or_build(gf, stix, ConfigModel, FALSE, loads, encodes, now)
             m1 == [m EXCEPT !.graph = Set(r.graph), !.graphs = @ + 1]
             m2 == [m1 EXCEPT !.embedding_service = Set(FALSE)]
             v == VectorSearch_init(r.graph)
         IN  IF r.kind = "raise"
             THEN [matcher |-> m, gfile |-> r.gfile, raised |-> TRUE]
             ELSE IF v.kind = "raise"
             THEN [matcher |-> m2, gfile |-> r.gfile, raised |-> TRUE]
             ELSE [matcher |-> [m2 EXCEPT !.vector_search = v, !.searches = @ + 1],
                   gfile |-> r.gfile, raised |-> FALSE]

(* cosine_similarity(query, embedding_matrix) of VectorSearch.search raises *)
(* when a technique and the query differ in length                          *)
search_raises(graph, query_embedding) ==
    /\ query_embedding # <<>>
    /\ \E i \in 1..Len(graph.techniques) :
          Len(graph.techniques[i].embedding) # Len(query_embedding)

(* TTCMatcher.match_steps for n equal steps: whether it returns, and what   *)
(* it leaves in the matcher and in the graph file.  The value of            *)
(* embedding_service tells whether that service has its model.              *)
TTCMatcher_match_steps(m, gf, stix, n, loads, encodes, now) ==
    LET e == TTCMatcher_ensure_initialized(m, gf, stix, loads, encodes, now)
        m1 == e.matcher
        g == EmbeddingService_get_embedding(m1.embedding_service.value, FALSE,
                                            loads, encodes)
        m2 == [m1 EXCEPT !.embedding_service = Set(g.model)]
        query == IF g.call.ret = "vector" THEN Vec(embedding_dim(ConfigModel))
                 ELSE <<>>
    IN  IF e.raised THEN [matcher |-> m1, gfile |-> e.gfile, ret |-> "raise"]
        ELSE IF n = 0 THEN [matcher |-> m1, gfile |-> e.gfile, ret |-> "ok"]
        ELSE IF m1.embedding_service = Unset
        THEN [matcher |-> m1, gfile |-> e.gfile, ret |-> "raise"]
        ELSE IF g.call.raised THEN [matcher |-> m2, gfile |-> e.gfile, ret |-> "raise"]
        ELSE IF query = <<>> THEN [matcher |-> m2, gfile |-> e.gfile, ret |-> "ok"]
        ELSE IF m1.vector_search = Unset
        THEN [matcher |-> m2, gfile |-> e.gfile, ret |-> "raise"]
        ELSE IF search_raises(m1.vector_search.value, query)
        THEN [matcher |-> m2, gfile |-> e.gfile, ret |-> "raise"]
        ELSE [matcher |-> m2, gfile |-> e.gfile, ret |-> "ok"]

InitMatcher ==
    /\ clock = 0
    /\ DirEmpty /\ SMIdle /\ StateIdle /\ OrchIdle /\ MitreIdle

CallMatcherMatchSteps(n) ==
    /\ Len(matcher.calls) < MaxCalls
    /\ \E loads \in BOOLEAN, encodes \in BOOLEAN :
          LET r == TTCMatcher_match_steps(matcher, gfile, bundle, n, loads, encodes,
                                          clock)
          IN  /\ matcher' = [r.matcher EXCEPT !.calls = Append(@, r.ret)]
              /\ gfile' = r.gfile
    /\ UNCHANGED <<clock, bundle, gcall, stateVars, smVars, dirVars, orchVars,
                   matchVars, embed, treegen>>

NextMatcher ==
    \/ \E n \in 0..1 : CallMatcherMatchSteps(n)
    \/ \E n \in 0..MaxTechniques : BundleWrite(n)
    \/ BundleRemove
    \/ GraphSaveKilled
    \/ Tick

SpecMatcher == InitMatcher /\ [][NextMatcher]_vars

----------------------------------------------------------------------------
(* SpecTrees: the tree generation stage of execute_workflow, run again and  *)
(* again over one output directory by calls that enter the stage with       *)
(* tree_generation_complete false.                                          *)
(*   treegen.file          output_dir/.threatforest_state.json              *)
(*   treegen.high          the high-severity threats of the last run        *)
(*   treegen.attack_trees  state.attack_trees of the last run               *)
(*   treegen.complete      state.tree_generation_complete of the last run   *)
(*   treegen.runs          runs so far                                      *)

MaxThreats == 3     \* threat statements told apart

Threats == 1..MaxThreats

(* what generate_attack_tree does for one threat: a tree with mermaid_code, *)
(* a dict without it, a falsy value, or an exception                        *)
Outcomes == {"mermaid", "error", "nothing", "raise"}

(* the tracking file; the status "none" stands for a threat without a key *)
TrackingJson(threat_status) == [kind |-> "json", threat_status |-> threat_status]

(* StateManager.load_state: {} for no file and for a file json can not load *)
load_state(file) ==
    IF file.kind = "json" THEN file.threat_status
    ELSE [t \in Threats |-> "none"]

(* StateManager.save_state *)
save_state(threat_status) == TrackingJson(threat_status)

(* StateManager.filter_threats_to_process *)
filter_threats_to_process(high_threats, existing_status) ==
    {t \in high_threats : existing_status[t] # "success"}

(* orchestrator.py lines 214-249: the tracking file is removed when it      *)
(* lists a success and no failure                                           *)
tree_generation_precheck(file) ==
    IF file.kind # "json" THEN file
    ELSE LET successful == {t \in Threats : file.threat_status[t] = "success"}
             failures == {t \in Threats : file.threat_status[t] = "failed"}
         IN  IF successful # {} /\ failures = {} THEN Absent ELSE file

(* AttackTreeGeneratorTool._process_single_threat *)
process_single_threat(t, outcome, acc) ==
    CASE outcome = "mermaid" ->
            [attack_trees |-> Append(acc.attack_trees,
                                     [threat_id |-> t, kind |-> "mermaid"]),
             threat_status |-> [acc.threat_status EXCEPT ![t] = "success"]]
      [] outcome = "nothing" -> acc
      [] OTHER ->
            [attack_trees |-> Append(acc.attack_trees,
                                     [threat_id |-> t, kind |-> "error"]),
             threat_status |-> [acc.threat_status EXCEPT ![t] = "failed"]]

(* AttackTreeGeneratorTool.run: the returned attack_trees and the tracking  *)
(* file it leaves                                                           *)
tool_run(high_threats, outcome, file) ==
    LET existing_status == load_state(file)
        threats_to_process == filter_threats_to_process(high_threats, existing_status)
        RECURSIVE process(_, _)
        process(t, acc) ==
            IF t > MaxThreats THEN acc
            ELSE process(t + 1, IF t \in threats_to_process
                                THEN process_single_threat(t, outcome[t], acc)
                                ELSE acc)
        done == process(1, [attack_trees |-> <<>>, threat_status |-> existing_status])
    IN  IF high_threats = {} THEN [attack_trees |-> <<>>, file |-> file]
        ELSE IF threats_to_process = {} THEN [attack_trees |-> <<>>, file |-> file]
        ELSE [attack_trees |-> done.attack_trees,
              file |-> save_state(done.threat_status)]

InitTrees ==
    /\ clock = 0
    /\ DirEmpty /\ SMIdle /\ StateIdle /\ OrchIdle /\ MitreIdle

(* orchestrator.py lines 214-266 *)
TreeGenerationStage(high_threats, outcome) ==
    /\ treegen.runs < MaxRuns
    /\ LET r == tool_run(high_threats, outcome, tree_generation_precheck(treegen.file))
       IN  treegen' = [file |-> r.file, high |-> high_threats,
                       attack_trees |-> r.attack_trees, complete |-> TRUE,
                       runs |-> treegen.runs + 1]
    /\ UNCHANGED <<clock, stateVars, smVars, dirVars, orchVars, graphVars, matchVars,
                   embed, matcher>>

(* the process is killed in save_state, after open(state_file, 'w') *)
TreeGenerationKilled(high_threats) ==
    /\ treegen.runs < MaxRuns
    /\ filter_threats_to_process(high_threats,
           load_state(tree_generation_precheck(treegen.file))) # {}
    /\ treegen' = [file |-> Truncated, high |-> high_threats,
                   attack_trees |-> <<>>, complete |-> FALSE,
                   runs |-> treegen.runs + 1]
    /\ UNCHANGED <<clock, stateVars, smVars, dirVars, orchVars, graphVars, matchVars,
                   embed, matcher>>

(* an outcome is drawn for the threats the run processes *)
NextTrees ==
    \/ \E high_threats \in SUBSET Threats :
          \E outcome \in [filter_threats_to_process(high_threats,
                             load_state(tree_generation_precheck(treegen.file)))
                          -> Outcomes] :
              TreeGenerationStage(high_threats, outcome)
    \/ \E high_threats \in SUBSET Threats : TreeGenerationKilled(high_threats)

SpecTrees == InitTrees /\ [][NextTrees]_vars

----------------------------------------------------------------------------
(* The stage order as the documentation states it *)

StageSeq ==
    <<"setup", "context_analysis", "extraction", "tree_generation",
      "mapping", "summary", "complete">>
Pos(stage) == CHOOSE i \in 1..Len(StageSeq) : StageSeq[i] = stage

FlagSeq ==
    <<"setup_complete", "context_complete", "extraction_complete",
      "tree_generation_complete", "mapping_complete", "summary_complete">>

----------------------------------------------------------------------------
(* Properties of ThreatForestState, checked under SpecState *)

(* C4: can_transition_to(target) is true exactly when target is the current  *)
(* stage, or the current stage is target's immediate predecessor in the      *)
(* stage order, or target is summary and the current stage is                *)
(* tree_generation; nothing backward and no other skip is allowed.           *)
C4_TransitionOnlyAlongOrder ==
    call.op = "can_transition_to" =>
        LET cur == call.before.current_stage.v
            target == call.stage
        IN  call.ret <=> \/ target = cur
                         \/ Pos(target) = Pos(cur) + 1
                         \/ (target = "summary" /\ cur = "tree_generation")

C4_Witness ==
    /\ call.op = "can_transition_to"
    /\ call.before.current_stage.v = "tree_generation"
    /\ call.stage = "summary"
    /\ call.ret

C4_WitnessIllegalSkip ==
    /\ call.op = "can_transition_to"
    /\ call.before.current_stage.v = "setup"
    /\ call.stage = "mapping"
    /\ ~call.ret

(* C5: advance_to(S) raises whenever can_transition_to(S) is false and then  *)
(* leaves current_stage, last_updated and every completion flag unchanged;   *)
(* when it does not raise, current_stage is exactly S.                       *)
C5_AdvanceRaisesAndLeavesState ==
    call.op = "advance_to" =>
        /\ call.raised <=> ~can_transition_to(call.before, call.stage)
        /\ call.raised =>
              /\ ws.current_stage = call.before.current_stage
              /\ ws.last_updated = call.before.last_updated
              /\ \A f \in FlagNames : ws[f] = call.before[f]
        /\ ~call.raised => ws.current_stage.v = call.stage

C5_Witness ==
    /\ call.op = "advance_to"
    /\ call.before = NewState(0, "projA", Model)
    /\ call.stage = "extraction"
    /\ call.raised
    /\ clock # call.before.last_updated

(* C6: is_valid_for_resume is false when current_stage is complete;          *)
(* otherwise it is true exactly when every stage among context_analysis,     *)
(* extraction, tree_generation, mapping, summary that is at or below the     *)
(* current stage has its prerequisite flag set.                              *)
Prerequisite(stage) ==
    CASE stage = "context_analysis" -> "setup_complete"
      [] stage = "extraction"       -> "context_complete"
      [] stage = "tree_generation"  -> "extraction_complete"
      [] stage = "mapping"          -> "tree_generation_complete"
      [] stage = "summary"          -> "tree_generation_complete"

C6_ValidForResumeIffPrerequisites ==
    call.op = "is_valid_for_resume" =>
        LET self == call.before
            cur == self.current_stage.v
        IN  call.ret <=>
              /\ cur # "complete"
              /\ \A S \in {"context_analysis", "extraction", "tree_generation",
                           "mapping", "summary"} :
                    Pos(S) <= Pos(cur) => self[Prerequisite(S)]

C6_Witness ==
    /\ call.op = "is_valid_for_resume"
    /\ call.before.current_stage.v = "extraction"
    /\ call.before.setup_complete /\ ~call.before.context_complete
    /\ ~call.ret

(* C7: is_valid_for_resume is false whenever a later stage's completion flag *)
(* is true while an earlier stage's completion flag is false.                *)
C7_LaterFlagWithoutEarlierIsInvalid ==
    call.op = "is_valid_for_resume" =>
        ((\E i, j \in 1..Len(FlagSeq) :
             i < j /\ ~call.before[FlagSeq[i]] /\ call.before[FlagSeq[j]])
         => ~call.ret)

----------------------------------------------------------------------------
(* Properties of StateManager, checked under SpecSM *)

(* C9: after any sequence of saves under one name, load_checkpoint of that   *)
(* name returns a state structurally equal to the one saved last; for a name *)
(* never saved, or deleted since, it returns None.                           *)
C9_LoadReturnsLastSaved ==
    /\ smLoaded.expect.kind = "none" => smLoaded.ret.kind = "none"
    /\ smLoaded.expect.kind = "state" =>
          /\ smLoaded.ret.kind = "state"
          /\ StructEq(smLoaded.ret.state, smLoaded.expect.state)

C9_Witness ==
    /\ smLoaded.expect.kind = "state"
    /\ smLoaded.expect.n >= 2
    /\ smLoaded.expect.state.current_stage.enum
    /\ smLoaded.ret.kind = "state"
    /\ ~smLoaded.ret.state.current_stage.enum

----------------------------------------------------------------------------
(* Properties of execute_workflow, checked under Spec *)

WorkStages ==
    <<"context_analysis", "extraction", "tree_generation", "mapping", "summary">>

StageFlag(stage) ==
    CASE stage = "setup"            -> "setup_complete"
      [] stage = "context_analysis" -> "context_complete"
      [] stage = "extraction"       -> "extraction_complete"
      [] stage = "tree_generation"  -> "tree_generation_complete"
      [] stage = "mapping"          -> "mapping_complete"
      [] stage = "summary"          -> "summary_complete"

PcSeq ==
    <<"init_archive_write", "setup", "setup_write",
      "context_analysis", "context_analysis_write",
      "extraction", "extraction_write",
      "tree_generation", "tree_generation_write",
      "mapping", "mapping_write", "summary", "summary_write",
      "final_archive", "final_archive_write", "cleanup">>
PcPos(p) == CHOOSE i \in 1..Len(PcSeq) : PcSeq[i] = p

(* the running call is past the if/else of the given stage *)
Past(stage) ==
    \/ pc = "idle" /\ result.status = "success"
    \/ pc # "idle" /\ PcPos(pc) > PcPos(stage) + 1

IsPrefix(a, b) == Len(a) <= Len(b) /\ SubSeq(b, 1, Len(a)) = a

(* the stages a checkpoint leaves to do, in stage order *)
Remaining(ck) == SelectSeq(WorkStages, LAMBDA S : ~ck[StageFlag(S)])

(* the call was made with resume=true over a checkpoint valid for resume *)
ResumeCase ==
    /\ run >= 1
    /\ config.resume
    /\ resumedFrom.ret.kind = "state"
    /\ is_valid_for_resume(resumedFrom.ret.state).ok

(* C1: a call with resume=true over a valid 'latest' checkpoint does not     *)
(* invoke the collaborator of any stage the checkpoint marks complete and    *)
(* uses its stored result instead; the collaborators of the remaining stages *)
(* are invoked in stage order, all of them when the call succeeds.           *)
C1_ResumeSkipsCompletedStages ==
    ResumeCase =>
        LET ck == resumedFrom.ret.state
        IN  /\ \A i \in 1..Len(invoked) : ~ck[StageFlag(invoked[i])]
            /\ IsPrefix(invoked, Remaining(ck))
            /\ (pc = "idle" /\ result.status = "success") => invoked = Remaining(ck)
            /\ (ck.context_complete /\ Past("context_analysis"))
                  => context["context_files"] = ck.context_files
            /\ (ck.extraction_complete /\ Past("extraction"))
                  => /\ context["extracted_info"] = ck.extracted_info
                     /\ pc # "idle" => extraction_result = ck.extracted_info
            /\ (ck.tree_generation_complete /\ pc = "mapping")
                  => attack_trees = ck.attack_trees

C1_Witness ==
    /\ ResumeCase
    /\ resumedFrom.ret.state.context_complete
    /\ ~resumedFrom.ret.state.extraction_complete
    /\ pc = "idle" /\ result.status = "success"
    /\ invoked = <<"extraction", "tree_generation", "mapping", "summary">>
    /\ context["context_files"] = Payload("context_analysis", run - 1)

(* checkpoint writes completed by the running call *)
Saves == SelectSeq(hist, LAMBDA e : e.ev = "save")
NumFlags(self) == Cardinality({f \in FlagNames : self[f]})

(* C2: every completion flag the call sets is followed by exactly one        *)
(* checkpoint write before the next stage begins, so at every stage boundary *)
(* the flags in the persisted 'latest' checkpoint equal the flags in memory. *)
C2_FlagsPersistedAtStageBoundary ==
    pc \in {"context_analysis", "extraction", "tree_generation", "mapping", "summary"}
    =>  /\ files["latest"].kind = "json"
        /\ \A f \in FlagNames : files["latest"].data[f] = state[f]
        /\ Len(Saves) = NumFlags(state) -
              (IF ResumeCase THEN NumFlags(resumedFrom.ret.state) ELSE 0)

(* the first stage, in stage order, whose flag a checkpoint leaves unset *)
FirstIncomplete(data) ==
    LET open == {i \in 1..Len(WorkStages) : ~data[StageFlag(WorkStages[i])]}
    IN  IF open = {} THEN "none"
        ELSE WorkStages[CHOOSE i \in open : \A j \in open : i <= j]

FirstFailed ==
    WorkStages[CHOOSE i \in 1..Len(WorkStages) :
                  /\ WorkStages[i] \in failed
                  /\ \A j \in 1..Len(WorkStages) : WorkStages[j] \in failed => i <= j]

(* C3: when the collaborator of stage S fails, the persisted 'latest'        *)
(* checkpoint is the one of the last completed stage: it is valid for resume *)
(* and S is its first incomplete stage, so that a resumed call starts at S.  *)
C3_FailureLeavesResumableCheckpoint ==
    (pc = "idle" /\ result.status \in {"error", "success"} /\ failed # {})
    =>  /\ files["latest"].kind = "json"
        /\ is_valid_for_resume(from_json(files["latest"].data)).ok
        /\ FirstIncomplete(files["latest"].data) = FirstFailed

(* C8: a process killed during save_checkpoint leaves the checkpoint file    *)
(* holding a complete state (the new or the previous one), never an empty or *)
(* partly written file.                                                      *)
C8_KilledSaveLeavesCompleteFile ==
    (pc = "idle" /\ result.status = "killed") => files["latest"].kind # "truncated"

(* C10: when a call starts from a fresh state while a 'latest' checkpoint    *)
(* exists (resume=false, or the checkpoint is not valid for resume), the old *)
(* checkpoint is in the archive by the time the call writes its first        *)
(* checkpoint.                                                               *)
C10_FreshStartArchivesExisting ==
    (/\ run >= 1
     /\ resumedFrom.file.kind = "json"
     /\ resumedFrom.ret.kind = "state"
     /\ ~ResumeCase
     /\ pc \in {"setup_write", "context_analysis"})
    => \E ts \in 0..MaxClock : archive[<<"latest", ts>>] = resumedFrom.file

----------------------------------------------------------------------------
(* Claims about the end of a run and about failures *)

(* C11: after a call has finished the summary stage (current_stage is        *)
(* complete) the final state was saved, then archived, then the 'latest'     *)
(* checkpoint deleted: load_checkpoint('latest') finds nothing, an archive   *)
(* entry with current_stage complete exists, and the cleanup left it there.  *)
C11_TerminalStateArchivedThenDeleted ==
    (pc = "idle" /\ result.status = "success" /\ state.current_stage.v = "complete")
    =>  /\ load_checkpoint(files, "latest").kind = "none"
        /\ \E ts \in 0..MaxClock :
              /\ archive[<<"latest", ts>>].kind = "json"
              /\ archive[<<"latest", ts>>].data.current_stage = "complete"
        /\ Len(hist) >= 2
        /\ hist[Len(hist) - 1] = Saved("summary_write")
        /\ hist[Len(hist)] = Archived("final")

C11_Witness ==
    /\ pc = "idle" /\ result.status = "success"
    /\ state.current_stage.v = "complete"
    /\ "summary" \in {invoked[i] : i \in 1..Len(invoked)}
    /\ files["latest"] = Absent
    /\ archive[archive_file].kind = "json"
    /\ archive[archive_file].data.current_stage = "complete"

(* C12: an illegal transition raised by advance_to, and an existing          *)
(* checkpoint that fails is_valid_for_resume, surface to the caller of       *)
(* execute_workflow: a call that found an invalid checkpoint ends by raising *)
(* and runs no stage, and an error result comes from a failed collaborator   *)
(* alone, never from a caught transition error.                              *)
C12_InvariantViolationsSurface ==
    /\ (/\ run >= 1
         /\ resumedFrom.ret.kind = "state"
         /\ ~is_valid_for_resume(resumedFrom.ret.state).ok)
        => (pc = "idle" /\ result.status = "raised")
    /\ (pc = "idle" /\ result.status = "error") => failed # {}

(* C13: whenever the collaborator of a stage fails, the failure is appended  *)
(* to state.errors and the call returns a failed result that names the stage *)
(* of the failure.                                                           *)
C13_FailureRecordedAndReturned ==
    (pc = "idle" /\ result.status \in {"error", "success"} /\ failed # {})
    =>  /\ Len(state.errors) >= Cardinality(failed)
        /\ result.status = "error"
        /\ result.stage = FirstFailed

----------------------------------------------------------------------------
(* Claims about the technique graph *)

(* the persisted graph is usable as it is: it parses, was embedded with the *)
(* requested model, and the bundle is not newer than it                     *)
GraphFresh(gf, stix, model_name) ==
    /\ gf.kind = "json"
    /\ gf.data["embedding_model"] = model_name
    /\ ~(stix.exists /\ stix.mtime > gf.mtime)

(* C14: get_or_build returns the persisted graph without building only when *)
(* the file exists, force_rebuild is false, the graph is not stale and the  *)
(* load succeeds; in every other case it builds from the bundle, saves the  *)
(* new graph and returns it (or fails in the build itself), and a failing   *)
(* load never reaches the caller.                                           *)
C14_GetOrBuildLoadsOnlyWhenFresh ==
    gcall.op = "get_or_build" =>
        LET gf == gcall.before.gfile
            stix == gcall.before.bundle
        IN  IF ~gcall.force /\ GraphFresh(gf, stix, gcall.model)
            THEN /\ gcall.ret.kind = "loaded"
                 /\ gcall.ret.graph = graph_from_dict(gf.data)
                 /\ gfile = gf
            ELSE /\ gcall.ret.kind # "loaded"
                 /\ (gcall.ret.kind = "raise") <=> (~stix.exists \/ ~gcall.loads)
                 /\ gcall.ret.kind = "raise" => gfile = gf
                 /\ gcall.ret.kind = "built" =>
                       /\ gfile.kind = "json"
                       /\ graph_from_dict(gfile.data) = gcall.ret.graph
                       /\ gcall.ret.graph.embedding_model = gcall.model
                       /\ Len(gcall.ret.graph.techniques) = stix.n

(* a file that does not load is replaced by a newly built graph *)
C14_Witness ==
    /\ gcall.op = "get_or_build"
    /\ gcall.before.gfile.kind = "truncated"
    /\ ~gcall.force
    /\ gcall.ret.kind = "built"
    /\ gfile.kind = "json"

(* C15: is_stale returns true whenever the expected embedding model differs *)
(* from the one of the persisted graph, whatever the file timestamps, and   *)
(* also when the bundle is missing.                                         *)
C15_StaleWhenModelDiffers ==
    (/\ gcall.op = "is_stale"
     /\ gcall.model # NoModel
     /\ gcall.before.gfile.kind = "json"
     /\ gcall.before.gfile.data["embedding_model"] # gcall.model)
    => gcall.stale

(* the model differs while the bundle is missing, and while it is older *)
C15_Witness ==
    /\ gcall.op = "is_stale"
    /\ gcall.model # NoModel
    /\ gcall.before.gfile.kind = "json"
    /\ gcall.before.gfile.data["embedding_model"] # gcall.model
    /\ ~gcall.before.bundle.exists
    /\ gcall.stale

(* C16: every graph returned by build_from_stix or get_or_build, and every  *)
(* graph get_or_build saves, has node embeddings of length embedding_dim,   *)
(* whatever the batch embedding call did.                                   *)
C16_EmbeddingLengthIsDim ==
    /\ (gcall.op \in {"build_from_stix", "get_or_build"}
        /\ gcall.ret.kind \in {"built", "loaded"})
       => \A i \in DOMAIN gcall.ret.graph.techniques :
             Len(gcall.ret.graph.techniques[i].embedding)
                = gcall.ret.graph.embedding_dim
    /\ gfile.kind = "json"
       => \A i \in DOMAIN gfile.data["techniques"] :
             Len(gfile.data["techniques"][i].embedding) = gfile.data["embedding_dim"]

----------------------------------------------------------------------------
(* Claims about the search and the matcher *)

(* C17: for a non-empty query, any top_k >= 0 and any min_similarity, search *)
(* returns at most top_k results, in non-increasing order of similarity,     *)
(* none below min_similarity; for an empty query it returns the empty list.  *)
C17_SearchAtMostTopKSortedAboveMin ==
    mcall.op = "search" =>
        IF mcall.query = <<>> THEN mcall.ret = <<>>
        ELSE /\ Len(mcall.ret) <= minput.top_k
             /\ \A i \in 1..Len(mcall.ret) :
                   mcall.ret[i].similarity >= minput.min_similarity
             /\ \A i, j \in 1..Len(mcall.ret) :
                   i < j => mcall.ret[i].similarity >= mcall.ret[j].similarity

RECURSIVE IsSubseq(_, _)
IsSubseq(a, b) ==
    IF a = <<>> THEN TRUE
    ELSE IF b = <<>> THEN FALSE
    ELSE IF Head(a) = Head(b) THEN IsSubseq(Tail(a), Tail(b))
    ELSE IsSubseq(a, Tail(b))

(* C18: every entry match_steps returns has a non-empty matches list whose   *)
(* similarities are at least min_similarity, and the steps of the entries    *)
(* are a subsequence of the input steps, in input order.                     *)
C18_EntriesNonEmptyInInputOrder ==
    mcall.op = "match_steps" =>
        /\ \A e \in 1..Len(mcall.ret) :
              /\ mcall.ret[e].matches # <<>>
              /\ \A m \in 1..Len(mcall.ret[e].matches) :
                    mcall.ret[e].matches[m].similarity >= minput.min_similarity
        /\ IsSubseq([e \in 1..Len(mcall.ret) |-> mcall.ret[e].attack_step],
                    minput.steps)

(* a step that has an embedding but no candidate is left out *)
C18_Witness ==
    /\ mcall.op = "match_steps"
    /\ Len(minput.steps) = 2
    /\ minput.steps[1].embedding # <<>>
    /\ minput.steps[1] # minput.steps[2]
    /\ minput.top_k > 0
    /\ Len(mcall.ret) = 1
    /\ mcall.ret[1].attack_step = minput.steps[2]

(* raw similarity and number of shared terms of a step and a technique *)
Raw(step, i) == cosine_similarity(step.embedding, minput.graph[i].embedding)
Shared(step, i) == Cardinality(step.terms \cap minput.graph[i].terms)

(* C19 as stated: the returned similarity is min(raw * (1 + 0.1 n), 1.5)     *)
C19_BoostCapsTheValue ==
    mcall.op = "match_steps" =>
        \A e \in 1..Len(mcall.ret) : \A m \in 1..Len(mcall.ret[e].matches) :
            LET step == mcall.ret[e].attack_step
                t == mcall.ret[e].matches[m].technique
            IN  mcall.ret[e].matches[m].similarity
                   = Min2((Raw(step, t) * (10 + Shared(step, t))) \div 10, 1500)

(* C19: for a step and a technique sharing n terms the returned similarity   *)
(* is raw * min(1 + 0.1 n, 1.5), the cap being on the factor; with n = 0 it  *)
(* is raw.                                                                   *)
C19_BoostCapsTheFactor ==
    mcall.op = "match_steps" =>
        \A e \in 1..Len(mcall.ret) : \A m \in 1..Len(mcall.ret[e].matches) :
            LET step == mcall.ret[e].attack_step
                t == mcall.ret[e].matches[m].technique
            IN  /\ mcall.ret[e].matches[m].similarity * 10
                      = Raw(step, t) * Min2(10 + Shared(step, t), 15)
                /\ Shared(step, t) = 0
                      => mcall.ret[e].matches[m].similarity = Raw(step, t)

(* a match whose factor is capped, and one without a shared term *)
C19_Witness ==
    /\ mcall.op = "match_steps"
    /\ \E e \in 1..Len(mcall.ret) : \E m \in 1..Len(mcall.ret[e].matches) :
          /\ Shared(mcall.ret[e].attack_step, mcall.ret[e].matches[m].technique) > 5
          /\ mcall.ret[e].matches[m].similarity
                > Raw(mcall.ret[e].attack_step, mcall.ret[e].matches[m].technique)
    /\ \E e \in 1..Len(mcall.ret) : \E m \in 1..Len(mcall.ret[e].matches) :
          Shared(mcall.ret[e].attack_step, mcall.ret[e].matches[m].technique) = 0

(* technique i is among the top_k nearest of the step whatever the order of *)
(* equal similarities                                                       *)
InTopK(step, i) ==
    Cardinality({j \in 1..Len(minput.graph) :
                    j # i /\ Raw(step, j) >= Raw(step, i)}) < minput.top_k

Matched(step, i) ==
    \E e \in 1..Len(mcall.ret) :
        /\ mcall.ret[e].attack_step = step
        /\ \E m \in 1..Len(mcall.ret[e].matches) :
              mcall.ret[e].matches[m].technique = i

(* C20: the threshold is applied to the boosted value: a technique among the *)
(* top_k nearest whose raw similarity is below min_similarity but whose      *)
(* boosted similarity reaches it is kept, and one whose raw similarity       *)
(* reaches min_similarity is never dropped.                                  *)
C20_FilterAppliesToBoostedValue ==
    mcall.op = "match_steps" =>
        \A k \in 1..Len(minput.steps) : \A i \in 1..Len(minput.graph) :
            LET step == minput.steps[k]
                boosted == (Raw(step, i) * Min2(10 + Shared(step, i), 15)) \div 10
            IN  (step.embedding # <<>> /\ InTopK(step, i)) =>
                    /\ (Raw(step, i) < minput.min_similarity
                        /\ boosted >= minput.min_similarity) => Matched(step, i)
                    /\ Raw(step, i) >= minput.min_similarity => Matched(step, i)

----------------------------------------------------------------------------
(* Claims about runs, kills and restarts of execute_workflow *)

(* the stage whose advance_to call the running process makes next, if any *)
AboutToAdvance(stage) == pc = stage /\ ~state[StageFlag(stage)]

(* C25: over all runs, kills, collaborator failures and resumed restarts,    *)
(* every advance_to call the orchestrator makes is a legal transition; the   *)
(* first incomplete stage of every checkpoint it wrote is the current_stage  *)
(* of that checkpoint or a legal successor of it; and current_stage never    *)
(* moves backwards within a run.                                             *)
C25_EveryAdvanceIsLegal ==
    /\ [](/\ \A i \in 1..Len(WorkStages) :
                AboutToAdvance(WorkStages[i])
                => ~advance_to(state, WorkStages[i], clock).raised
          /\ AboutToAdvance("summary")
                => ~advance_to(advance_to(state, "summary", clock).self,
                               "complete", clock).raised
          /\ files["latest"].kind = "json"
                => LET data == files["latest"].data
                       first == FirstIncomplete(data)
                   IN  \/ first = "none"
                       \/ first = data.current_stage
                       \/ can_transition_to(from_json(data), first))
    /\ [][(pc \notin {"idle", "init_archive_write"} /\ pc' # "idle")
          => Pos(state'.current_stage.v) >= Pos(state.current_stage.v)]_vars

(* a resumed call about to advance from the stage its checkpoint stopped at *)
C25_Witness ==
    /\ ResumeCase
    /\ AboutToAdvance("tree_generation")
    /\ state.current_stage.v = "extraction"
    /\ files["latest"].kind = "json"

(* C26: a call that resumes from a checkpoint uses a state whose             *)
(* project_path and bedrock_model are those of its own configuration.        *)
C26_ResumedStateIsOfThisProject ==
    (ResumeCase /\ pc # "idle")
    =>  /\ state.project_path = config.project_path
        /\ state.bedrock_model = config.bedrock_model

(* C27: execute_workflow returns a result with status success or error and   *)
(* never raises to its caller, whatever the 'latest' checkpoint file holds.  *)
C27_NeverRaises ==
    result.status # "raised"

(* C21: a step whose embedding fails, because the model does not load or     *)
(* does not encode the step, is skipped, and the call still returns the      *)
(* other steps: match_steps does not raise, and every step that has an       *)
(* embedding and a candidate among the top_k at or above min_similarity is   *)
(* in the result.                                                            *)
C21_EmbeddingFailureSkipsTheStep ==
    mcall.op = "match_steps" =>
        /\ ~mcall.raised
        /\ \A k \in 1..Len(minput.steps) : \A i \in 1..Len(minput.graph) :
              (/\ minput.steps[k].embedding # <<>>
               /\ InTopK(minput.steps[k], i)
               /\ Raw(minput.steps[k], i) >= minput.min_similarity)
              => Matched(minput.steps[k], i)

(* C24: techniques of equal similarity are returned, and chosen for the      *)
(* top_k, by their position in the graph, lower index first.                 *)
C24_TiesByGraphPosition ==
    (mcall.op = "search" /\ mcall.query # <<>>) =>
        /\ \A i, j \in 1..Len(mcall.ret) :
              (i < j /\ mcall.ret[i].similarity = mcall.ret[j].similarity)
              => mcall.ret[i].technique < mcall.ret[j].technique
        /\ \A i \in 1..Len(mcall.ret) : \A t \in 1..Len(minput.graph) :
              (/\ t < mcall.ret[i].technique
               /\ cosine_similarity(mcall.query, minput.graph[t].embedding)
                     = mcall.ret[i].similarity)
              => \E j \in 1..Len(mcall.ret) : mcall.ret[j].technique = t

(* C29: the matches of every returned step are in non-increasing order of    *)
(* the returned similarity, so matches[0] has the highest.                   *)
C29_MatchesSortedByReturnedSimilarity ==
    mcall.op = "match_steps" =>
        \A e \in 1..Len(mcall.ret) : \A i, j \in 1..Len(mcall.ret[e].matches) :
            i < j => mcall.ret[e].matches[i].similarity
                        >= mcall.ret[e].matches[j].similarity

(* C22: on one EmbeddingService the model is constructed at most once, by   *)
(* the first call that needs it: a call that needs the model constructs it  *)
(* exactly when no earlier call has, and the calls with an empty text or an *)
(* empty list return the empty result without constructing it.              *)
C22_ModelLoadedAtMostOnce ==
    LET c == embed.calls
    IN  /\ Cardinality({k \in 1..Len(c) : c[k].loaded}) <= 1
        /\ embed.model <=> \E k \in 1..Len(c) : c[k].loaded
        /\ \A k \in 1..Len(c) :
              /\ c[k].empty => (~c[k].tried /\ ~c[k].raised /\ c[k].ret = "empty")
              /\ ~c[k].empty => (c[k].tried <=> \A j \in 1..(k - 1) : ~c[j].loaded)

C22_Witness ==
    /\ Len(embed.calls) = 3
    /\ embed.calls[1].empty /\ embed.calls[1].op = "get_embedding"
    /\ embed.calls[2].loaded /\ embed.calls[2].op = "get_batch_embeddings"
    /\ ~embed.calls[3].tried /\ embed.calls[3].ret = "vector"

(* C23: when the model fails while get_embedding embeds a non-empty text,   *)
(* the call raises; it returns the empty vector only for an empty text.     *)
C23_ModelFailurePropagates ==
    \A k \in 1..Len(embed.calls) :
        embed.calls[k].op = "get_embedding" =>
            /\ (~embed.calls[k].empty /\ embed.calls[k].failed) => embed.calls[k].raised
            /\ embed.calls[k].ret = "empty" => embed.calls[k].empty

(* C28: after every match_steps call, and so after every call of            *)
(* _ensure_initialized, graph, embedding_service and vector_search are all  *)
(* set or all unset, and the VectorSearch is over the graph of the matcher; *)
(* the graph and the VectorSearch are constructed at most once, and exactly *)
(* once when a match_steps call has returned.                               *)
C28_InitializedAllOrNothing ==
    /\ \/ (matcher.graph = Unset /\ matcher.embedding_service = Unset
             /\ matcher.vector_search = Unset
             /\ matcher.graphs = 0 /\ matcher.searches = 0)
       \/ (matcher.graph # Unset /\ matcher.embedding_service # Unset
             /\ matcher.vector_search = matcher.graph
             /\ matcher.graphs = 1 /\ matcher.searches = 1)
    /\ (\E k \in 1..Len(matcher.calls) : matcher.calls[k] = "ok")
          => (matcher.graphs = 1 /\ matcher.searches = 1)

C28_Witness ==
    /\ Len(matcher.calls) = 3
    /\ matcher.calls[1] = "raise"
    /\ matcher.calls[2] = "ok"
    /\ matcher.calls[3] = "ok"
    /\ matcher.graphs = 1
    /\ gfile.kind = "truncated"

(* C30: when the tree generation stage of a run has completed,              *)
(* state.attack_trees holds a tree for every high-severity threat whose     *)
(* status in the tracking file is 'success'.                                *)
C30_SuccessfulThreatsHaveTrees ==
    treegen.complete =>
        \A t \in treegen.high :
            load_state(treegen.file)[t] = "success"
            => \E i \in 1..Len(treegen.attack_trees) :
                  /\ treegen.attack_trees[i].threat_id = t
                  /\ treegen.attack_trees[i].kind = "mermaid"

====
